---- MODULE Spec2Model ----
(***************************************************************************)
(* Model of ant::signal / ant::connection (src/src/signal.hpp).            *)
(*                                                                         *)
(* Two signal instances X and Y of the same argument-type signature        *)
(* (signal<int>) share the static pending queue and the static emitting    *)
(* flag.  emit() is split at the points where it calls back into user      *)
(* code: the call itself (prune, snapshot, enqueue, test the flag), one    *)
(* loop iteration (pop the front entry and call its callable), the return  *)
(* or throw of the callable, and the end of the loop.  User code runs      *)
(* either at top level (empty call stack) or inside the body of the slot   *)
(* that the innermost drain loop is executing, and may call any public     *)
(* operation from there.                                                   *)
(*                                                                         *)
(* emits and invoked are history variables: they record the emit calls     *)
(* and the slot invocations of the current (or, once it returned, the      *)
(* last) outermost emission.  The code keeps no such record.               *)
(***************************************************************************)
EXTENDS Integers, Sequences, FiniteSets, TLC

\* ---- bounds ------------------------------------------------------------
MaxConnects == 2          \* connect calls in total, over all signal instances
MaxNested == 1      \* operations called from inside slots, per outermost emit

\* ---- universe ----------------------------------------------------------
Signals == {"X", "Y"}
Signatures == {"int", "str"}
Owners == {"o1"}
NoOwner == "none"
Values == {1, 2}
Ids == 0 .. (MaxConnects - 1)
Handles == Signals \X Ids

\* an empty std::function<void()>
NoFunc == <<"none", 0>>

\* connection objects: the one each connect call returns (named by its
\* handle) and objects that user code default-constructs or move-constructs
Extra == {"c"} \X {0}
ConnObjs == Handles \cup Extra
NoConn == [made |-> FALSE, connected |-> FALSE, func |-> NoFunc, dead |-> FALSE]

\* objects of classes derived from auto_disconnect
Aggs == {"a1", "a2"}

NoEntry == [sig |-> "none", id |-> 0, owner |-> NoOwner]

\* threads of the program that call emit, and a thread that is not in emit
Threads == {"t1", "t2"}
Idle == [pc |-> "idle", sig |-> "none", args |-> 0, slots_copy |-> <<>>,
         i |-> 0, wrapper |-> NoEntry]

VARIABLES
    slots,      \* signal::slots, per instance: sequence of SlotWrapper
    next_id,    \* signal::next_id, per instance
    slots_queue,\* static signal::slots_queue, per signature
    emitting,   \* static signal::emitting, per signature
    conns,      \* the connection objects returned by connect
    held,       \* held[o]: user code still holds a shared_ptr to owner o
    stack,      \* call stack of active drain loops (emit frames)
    nested,     \* operations called from inside slots in this emission
    emits,      \* history: emit calls of the current outermost emission
    invoked,    \* history: callable invocations of that emission
    thrown,     \* history: some callable of that emission threw
    aggs,       \* auto_disconnect objects: alive, and their connections vector
    sig_alive,  \* sig_alive[s]: the signal object s has not been destroyed
    fired,      \* history: fired[h] counts the calls of the removal closure h
    fault,      \* "none"; "dangling": a destroyed signal was accessed and the
                \* program went on; "crash": the program was terminated
    sigof,      \* sigof[s]: the argument types Args... of the signal s
    threads     \* threads[t]: where the thread t is in its emit call, and
                \* the locals of that call

vars == <<slots, next_id, slots_queue, emitting, conns, held, stack, nested, emits, invoked, thrown,
          aggs, sig_alive, fired, fault, sigof, threads>>

lifeVars == <<aggs, sig_alive, fired, fault>>

\* what no operation of a single-threaded program changes
otherVars == <<sigof, threads>>

\* slots_queue and emitting are static members of signal<Args...>: one of
\* each per argument-type signature.
SigOf(s) == sigof[s]

\* ---- helpers -----------------------------------------------------------
Top == stack[Len(stack)]

\* User code can run: at top level, or inside the slot body being executed.
\* connect calls made so far
Connects == next_id["X"] + next_id["Y"]

\* The program has not been terminated.
Running == fault # "crash"

CanCall == Running /\ (IF stack = <<>> THEN TRUE ELSE Top.busy /\ nested < MaxNested)

\* A lambda of connect(shared_ptr, method) holds ptr = weak_object.lock()
\* while the method runs.
Locked(o) == \E k \in DOMAIN stack : stack[k].locked /\ stack[k].cur.owner = o

\* the lambda captures the shared_ptr itself: the entries of the subscriber
\* lists keep their owner alive.
expired_strong(o) ==
    /\ ~held[o] /\ ~Locked(o)
    /\ \A s \in Signals : \A i \in DOMAIN slots[s] : slots[s][i].owner # o

\* std::weak_ptr::expired(): no shared_ptr to the object is left.
expired(o) == ~held[o] /\ ~Locked(o)

SlotWrapper(s, i, o) == [sig |-> s, id |-> i, owner |-> o]

\* The connection object that receives what connect returns: it is named by
\* its handle; when the signal has issued that handle before, it is the
\* user's other object.
Returned(s, id) == IF conns[<<s, id>>].made THEN <<"c", 0>> ELSE <<s, id>>

\* predicate of the erase_if in cleanup_expired
IsExpiredEntry(w) == w.owner # NoOwner /\ expired(w.owner)

\* the expired() test forgotten: every owner-bound entry is erased.
cleanup_all_owned(list) == SelectSeq(list, LAMBDA w : w.owner = NoOwner)

cleanup_expired(list) == SelectSeq(list, LAMBDA w : ~IsExpiredEntry(w))

\* std::remove_if without the erase: nothing leaves the list.
disconnect_by_id_noerase(list, id) == list

\* w.id <= id as the predicate of the erase_if: older entries go as well.
disconnect_by_id_upto(list, id) == SelectSeq(list, LAMBDA w : w.id > id)

\* erase(begin() + id): the identifier taken for a position in the list.
disconnect_by_id_at(list, id) ==
    IF id + 1 \in DOMAIN list
    THEN SubSeq(list, 1, id) \o SubSeq(list, id + 2, Len(list))
    ELSE list

disconnect_by_id(list, id) == SelectSeq(list, LAMBDA w : w.id # id)

\* push_front instead of push_back: the snapshot enters the queue reversed,
\* ahead of what is pending.
PushAllFront(q, slots_copy, call) ==
    [k \in 1 .. Len(slots_copy) |->
        [w |-> slots_copy[Len(slots_copy) + 1 - k], call |-> call]] \o q

\* slots_queue = snapshot instead of push_back: what is pending is dropped.
PushAllAssign(q, slots_copy, call) ==
    [k \in 1 .. Len(slots_copy) |-> [w |-> slots_copy[k], call |-> call]]

\* for (wrapper : slots_copy) slots_queue.push_back(wrapper);
\* call is the history tag of the emit call that pushed the entry.
PushAll(q, slots_copy, call) ==
    q \o [k \in 1 .. Len(slots_copy) |-> [w |-> slots_copy[k], call |-> call]]

\* History kept by an operation other than emit: the record of an emission
\* lasts until the next operation at top level.
KeepHistory ==
    /\ nested' = IF stack = <<>> THEN 0 ELSE nested + 1
    /\ emits' = IF stack = <<>> THEN <<>> ELSE emits
    /\ invoked' = IF stack = <<>> THEN <<>> ELSE invoked
    /\ thrown' = IF stack = <<>> THEN FALSE ELSE thrown

\* ---- initial state -----------------------------------------------------
\* The program declares the signals with the argument types given by types.
InitOf(types) ==
    /\ slots = [s \in Signals |-> <<>>]
    /\ next_id = [s \in Signals |-> 0]
    /\ slots_queue = [g \in Signatures |-> <<>>]
    /\ emitting = [g \in Signatures |-> FALSE]
    /\ conns = [c \in ConnObjs |-> NoConn]
    /\ held = [o \in Owners |-> TRUE]
    /\ stack = <<>>
    /\ nested = 0
    /\ emits = <<>>
    /\ invoked = <<>>
    /\ thrown = FALSE
    /\ aggs = [a \in Aggs |-> [alive |-> TRUE, connections |-> <<>>]]
    /\ sig_alive = [s \in Signals |-> TRUE]
    /\ fired = [h \in Handles |-> 0]
    /\ fault = "none"
    /\ sigof = types
    /\ threads = [t \in Threads |-> Idle]

\* ant::signal<int> X, Y;
Init == InitOf([s \in Signals |-> "int"])

\* ant::signal<int> X; ant::signal<std::string> Y;
InitTypes == InitOf([s \in Signals |-> IF s = "X" THEN "int" ELSE "str"])

\* insert at begin() instead of emplace_back.
ConnectPrepends(s) ==
    /\ CanCall
    /\ sig_alive[s]
    /\ Connects < MaxConnects
    /\ LET id == next_id[s] IN
        /\ ~conns[Returned(s, id)].made
        /\ next_id' = [next_id EXCEPT ![s] = id + 1]
        /\ slots' = [slots EXCEPT ![s] =
                        <<SlotWrapper(s, id, NoOwner)>> \o cleanup_expired(slots[s])]
        /\ conns' = [conns EXCEPT ![Returned(s, id)] =
                        [made |-> TRUE, connected |-> TRUE, func |-> <<s, id>>,
                         dead |-> FALSE]]
    /\ UNCHANGED <<slots_queue, emitting, held, stack>>
    /\ KeepHistory
    /\ UNCHANGED lifeVars
    /\ UNCHANGED otherVars

\* connect that also pushes the new entry on the pending queue of a running
\* emission.
ConnectEnqueues(s) ==
    /\ CanCall
    /\ sig_alive[s]
    /\ Connects < MaxConnects
    /\ LET id == next_id[s] IN
        /\ ~conns[Returned(s, id)].made
        /\ next_id' = [next_id EXCEPT ![s] = id + 1]
        /\ slots' = [slots EXCEPT ![s] =
                        Append(cleanup_expired(slots[s]), SlotWrapper(s, id, NoOwner))]
        /\ conns' = [conns EXCEPT ![Returned(s, id)] =
                        [made |-> TRUE, connected |-> TRUE, func |-> <<s, id>>,
                         dead |-> FALSE]]
        /\ slots_queue' = IF emitting[SigOf(s)]
                           THEN [slots_queue EXCEPT ![SigOf(s)] =
                                    PushAll(@, <<SlotWrapper(s, id, NoOwner)>>, Len(emits))]
                           ELSE slots_queue
    /\ UNCHANGED <<emitting, held, stack>>
    /\ KeepHistory
    /\ UNCHANGED lifeVars
    /\ UNCHANGED otherVars

\* size_t id = next_id instead of next_id++: the counter stays.
ConnectNoIncrement(s) ==
    /\ CanCall
    /\ sig_alive[s]
    /\ Connects < MaxConnects
    /\ LET id == next_id[s] IN
        /\ ~conns[Returned(s, id)].made
        /\ next_id' = next_id
        /\ slots' = [slots EXCEPT ![s] =
                        Append(cleanup_expired(slots[s]), SlotWrapper(s, id, NoOwner))]
        /\ conns' = [conns EXCEPT ![Returned(s, id)] =
                        [made |-> TRUE, connected |-> TRUE, func |-> <<s, id>>,
                         dead |-> FALSE]]
    /\ UNCHANGED <<slots_queue, emitting, held, stack>>
    /\ KeepHistory
    /\ UNCHANGED lifeVars
    /\ UNCHANGED otherVars

\* size_t id = slots.size(): an identifier returns once its entry is gone.
ConnectIdFromSize(s) ==
    /\ CanCall
    /\ sig_alive[s]
    /\ Connects < MaxConnects
    /\ LET id == Len(cleanup_expired(slots[s])) IN
        /\ ~conns[Returned(s, id)].made
        /\ next_id' = [next_id EXCEPT ![s] = @ + 1]
        /\ slots' = [slots EXCEPT ![s] =
                        Append(cleanup_expired(slots[s]), SlotWrapper(s, id, NoOwner))]
        /\ conns' = [conns EXCEPT ![Returned(s, id)] =
                        [made |-> TRUE, connected |-> TRUE, func |-> <<s, id>>,
                         dead |-> FALSE]]
    /\ UNCHANGED <<slots_queue, emitting, held, stack>>
    /\ KeepHistory
    /\ UNCHANGED lifeVars
    /\ UNCHANGED otherVars

\* ---- signal::connect(std::function) ------------------------------------
Connect(s) ==
    /\ CanCall
    /\ sig_alive[s]
    /\ Connects < MaxConnects
    /\ LET id == next_id[s] IN
        /\ ~conns[Returned(s, id)].made
        /\ next_id' = [next_id EXCEPT ![s] = id + 1]
        /\ slots' = [slots EXCEPT ![s] =
                        Append(cleanup_expired(slots[s]), SlotWrapper(s, id, NoOwner))]
        /\ conns' = [conns EXCEPT ![Returned(s, id)] =
                        [made |-> TRUE, connected |-> TRUE, func |-> <<s, id>>,
                         dead |-> FALSE]]
    /\ UNCHANGED <<slots_queue, emitting, held, stack>>
    /\ KeepHistory
    /\ UNCHANGED lifeVars
    /\ UNCHANGED otherVars

\* ---- signal::connect(shared_ptr, method) -------------------------------
ConnectMember(s, o) ==
    /\ CanCall
    /\ sig_alive[s]
    /\ held[o]
    /\ Connects < MaxConnects
    /\ LET id == next_id[s] IN
        /\ ~conns[Returned(s, id)].made
        /\ next_id' = [next_id EXCEPT ![s] = id + 1]
        /\ slots' = [slots EXCEPT ![s] =
                        Append(cleanup_expired(slots[s]), SlotWrapper(s, id, o))]
        /\ conns' = [conns EXCEPT ![Returned(s, id)] =
                        [made |-> TRUE, connected |-> TRUE, func |-> <<s, id>>,
                         dead |-> FALSE]]
    /\ UNCHANGED <<slots_queue, emitting, held, stack>>
    /\ KeepHistory
    /\ UNCHANGED lifeVars
    /\ UNCHANGED otherVars

\* emit without the test of the flag: every call runs a drain loop.
EmitNoFlagTest(s, v) ==
    /\ CanCall
    /\ sig_alive[s]
    /\ LET g == SigOf(s)
           slots_copy == cleanup_expired(slots[s])
           call == IF stack = <<>> THEN 1 ELSE Len(emits) + 1
           rec == [sig |-> s, args |-> v, snap |-> slots_copy,
                   from |-> IF stack = <<>> THEN 0 ELSE Len(invoked)]
       IN
        /\ slots' = [slots EXCEPT ![s] = slots_copy]
        /\ slots_queue' = [slots_queue EXCEPT ![g] = PushAll(@, slots_copy, call)]
        /\ emits' = IF stack = <<>> THEN <<rec>> ELSE Append(emits, rec)
        /\ invoked' = IF stack = <<>> THEN <<>> ELSE invoked
        /\ thrown' = IF stack = <<>> THEN FALSE ELSE thrown
        /\ nested' = IF stack = <<>> THEN 0 ELSE nested + 1
        /\ emitting' = [emitting EXCEPT ![g] = TRUE]
        /\ stack' = Append(stack, [sg |-> g, args |-> v, busy |-> FALSE,
                                   locked |-> FALSE, cur |-> NoEntry])
    /\ UNCHANGED <<next_id, conns, held>>
    /\ UNCHANGED lifeVars
    /\ UNCHANGED otherVars

\* the flag kept per instance: an emit on another instance than the one
\* whose slot is running finds it clear and runs its own drain loop.
EmitPerInstanceFlag(s, v) ==
    /\ CanCall
    /\ sig_alive[s]
    /\ LET g == SigOf(s)
           slots_copy == cleanup_expired(slots[s])
           call == IF stack = <<>> THEN 1 ELSE Len(emits) + 1
           rec == [sig |-> s, args |-> v, snap |-> slots_copy,
                   from |-> IF stack = <<>> THEN 0 ELSE Len(invoked)]
           clear == IF stack = <<>> THEN ~emitting[g] ELSE Top.cur.sig # s
       IN
        /\ slots' = [slots EXCEPT ![s] = slots_copy]
        /\ slots_queue' = [slots_queue EXCEPT ![g] = PushAll(@, slots_copy, call)]
        /\ emits' = IF stack = <<>> THEN <<rec>> ELSE Append(emits, rec)
        /\ invoked' = IF stack = <<>> THEN <<>> ELSE invoked
        /\ thrown' = IF stack = <<>> THEN FALSE ELSE thrown
        /\ nested' = IF stack = <<>> THEN 0 ELSE nested + 1
        /\ IF clear
           THEN /\ emitting' = [emitting EXCEPT ![g] = TRUE]
                /\ stack' = Append(stack, [sg |-> g, args |-> v, busy |-> FALSE,
                                           locked |-> FALSE, cur |-> NoEntry])
           ELSE UNCHANGED <<emitting, stack>>
    /\ UNCHANGED <<next_id, conns, held>>
    /\ UNCHANGED lifeVars
    /\ UNCHANGED otherVars

\* one flag for all instantiations of the template.
EmitGlobalFlag(s, v) ==
    /\ CanCall
    /\ sig_alive[s]
    /\ LET g == SigOf(s)
           slots_copy == cleanup_expired(slots[s])
           call == IF stack = <<>> THEN 1 ELSE Len(emits) + 1
           rec == [sig |-> s, args |-> v, snap |-> slots_copy,
                   from |-> IF stack = <<>> THEN 0 ELSE Len(invoked)]
       IN
        /\ slots' = [slots EXCEPT ![s] = slots_copy]
        /\ slots_queue' = [slots_queue EXCEPT ![g] = PushAll(@, slots_copy, call)]
        /\ emits' = IF stack = <<>> THEN <<rec>> ELSE Append(emits, rec)
        /\ invoked' = IF stack = <<>> THEN <<>> ELSE invoked
        /\ thrown' = IF stack = <<>> THEN FALSE ELSE thrown
        /\ nested' = IF stack = <<>> THEN 0 ELSE nested + 1
        /\ IF \A g2 \in Signatures : ~emitting[g2]
           THEN /\ emitting' = [emitting EXCEPT ![g] = TRUE]
                /\ stack' = Append(stack, [sg |-> g, args |-> v, busy |-> FALSE,
                                           locked |-> FALSE, cur |-> NoEntry])
           ELSE UNCHANGED <<emitting, stack>>
    /\ UNCHANGED <<next_id, conns, held>>
    /\ UNCHANGED lifeVars
    /\ UNCHANGED otherVars

\* ---- signal::emit, up to the test of the flag --------------------------
Emit(s, v) ==
    /\ CanCall
    /\ sig_alive[s]
    /\ LET g == SigOf(s)
           slots_copy == cleanup_expired(slots[s])
           call == IF stack = <<>> THEN 1 ELSE Len(emits) + 1
           rec == [sig |-> s, args |-> v, snap |-> slots_copy,
                   from |-> IF stack = <<>> THEN 0 ELSE Len(invoked)]
       IN
        /\ slots' = [slots EXCEPT ![s] = slots_copy]
        /\ slots_queue' = [slots_queue EXCEPT ![g] = PushAll(@, slots_copy, call)]
        /\ emits' = IF stack = <<>> THEN <<rec>> ELSE Append(emits, rec)
        /\ invoked' = IF stack = <<>> THEN <<>> ELSE invoked
        /\ thrown' = IF stack = <<>> THEN FALSE ELSE thrown
        /\ nested' = IF stack = <<>> THEN 0 ELSE nested + 1
        /\ IF ~emitting[g]
           THEN /\ emitting' = [emitting EXCEPT ![g] = TRUE]
                /\ stack' = Append(stack, [sg |-> g, args |-> v, busy |-> FALSE,
                                           locked |-> FALSE, cur |-> NoEntry])
           ELSE UNCHANGED <<emitting, stack>>
    /\ UNCHANGED <<next_id, conns, held>>
    /\ UNCHANGED lifeVars
    /\ UNCHANGED otherVars

\* operator() that calls emit() with value-initialised arguments.
CallDropsArgs(s, v) == Emit(s, 1)

\* ---- signal::operator() -------------------------------------------------
\* void operator()(Args... args) { emit(args...); }
Call(s, v) == Emit(s, v)

\* ---- the callable stored by connect(shared_ptr, method) ----------------
\* auto ptr = weak_object.lock(): TRUE iff ptr is non-null.
Lock(w) == w.owner # NoOwner /\ ~expired(w.owner)

\* the method called through the raw pointer, without if (ptr).
RunsBodyUnchecked(w) == TRUE

\* The user's function or method body is entered: always for a plain slot,
\* only under if (ptr) for an owner-bound one.
RunsBody(w) == w.owner = NoOwner \/ Lock(w)

\* back() and pop_back() instead of front() and pop_front().
DrainStepBack ==
    /\ Running
    /\ stack # <<>>
    /\ ~Top.busy
    /\ slots_queue[Top.sg] # <<>>
    /\ LET g == Top.sg
           item == slots_queue[g][Len(slots_queue[g])]
           w == item.w
           runs == RunsBody(w)
           rec == [w |-> w, got |-> Top.args, call |-> item.call,
                   ran |-> runs]
       IN
        /\ slots_queue' = [slots_queue EXCEPT ![g] = SubSeq(@, 1, Len(@) - 1)]
        /\ invoked' = Append(invoked, rec)
        /\ stack' = IF runs
                    THEN [stack EXCEPT ![Len(stack)] =
                            [@ EXCEPT !.busy = TRUE, !.cur = w,
                                      !.locked = Lock(w)]]
                    ELSE stack
    /\ UNCHANGED <<nested, slots, next_id, emitting, conns, held, emits, thrown>>
    /\ UNCHANGED lifeVars
    /\ UNCHANGED otherVars

\* ---- one iteration of the drain loop: pop the front, call it -----------
DrainStep ==
    /\ Running
    /\ stack # <<>>
    /\ ~Top.busy
    /\ slots_queue[Top.sg] # <<>>
    /\ LET g == Top.sg
           item == Head(slots_queue[g])
           w == item.w
           runs == RunsBody(w)
           rec == [w |-> w, got |-> Top.args, call |-> item.call,
                   ran |-> runs]
       IN
        /\ slots_queue' = [slots_queue EXCEPT ![g] = Tail(@)]
        /\ invoked' = Append(invoked, rec)
        /\ stack' = IF runs
                    THEN [stack EXCEPT ![Len(stack)] =
                            [@ EXCEPT !.busy = TRUE, !.cur = w,
                                      !.locked = Lock(w)]]
                    ELSE stack
    /\ UNCHANGED <<nested, slots, next_id, emitting, conns, held, emits, thrown>>
    /\ UNCHANGED lifeVars
    /\ UNCHANGED otherVars

\* ---- the callable returns ----------------------------------------------
SlotReturn ==
    /\ Running
    /\ stack # <<>>
    /\ Top.busy
    /\ stack' = [stack EXCEPT ![Len(stack)] =
                    [@ EXCEPT !.busy = FALSE, !.cur = NoEntry, !.locked = FALSE]]
    /\ UNCHANGED <<nested, slots, next_id, slots_queue, emitting, conns, held,
                   emits, invoked, thrown>>
    /\ UNCHANGED lifeVars
    /\ UNCHANGED otherVars

\* no try/catch around the call: the exception leaves emit.
SlotThrowUncaught ==
    /\ Running
    /\ stack # <<>>
    /\ Top.busy
    /\ stack' = SubSeq(stack, 1, Len(stack) - 1)
    /\ thrown' = TRUE
    /\ UNCHANGED <<nested, slots, next_id, slots_queue, emitting, conns, held,
                   emits, invoked>>
    /\ UNCHANGED lifeVars
    /\ UNCHANGED otherVars

\* ---- the callable throws: try { ... } catch (...) {} -------------------
SlotThrow ==
    /\ Running
    /\ stack # <<>>
    /\ Top.busy
    /\ stack' = [stack EXCEPT ![Len(stack)] =
                    [@ EXCEPT !.busy = FALSE, !.cur = NoEntry, !.locked = FALSE]]
    /\ thrown' = TRUE
    /\ UNCHANGED <<nested, slots, next_id, slots_queue, emitting, conns, held,
                   emits, invoked>>
    /\ UNCHANGED lifeVars
    /\ UNCHANGED otherVars

\* emit returns without emitting = false.
DrainEndFlagLeft ==
    /\ Running
    /\ stack # <<>>
    /\ ~Top.busy
    /\ slots_queue[Top.sg] = <<>>
    /\ stack' = SubSeq(stack, 1, Len(stack) - 1)
    /\ UNCHANGED <<nested, slots, next_id, slots_queue, emitting, conns, held,
                   emits, invoked, thrown>>
    /\ UNCHANGED lifeVars
    /\ UNCHANGED otherVars

\* ---- the loop ends: emitting = false; emit returns ---------------------
DrainEnd ==
    /\ Running
    /\ stack # <<>>
    /\ ~Top.busy
    /\ slots_queue[Top.sg] = <<>>
    /\ emitting' = [emitting EXCEPT ![Top.sg] = FALSE]
    /\ stack' = SubSeq(stack, 1, Len(stack) - 1)
    /\ UNCHANGED <<nested, slots, next_id, slots_queue, conns, held,
                   emits, invoked, thrown>>
    /\ UNCHANGED lifeVars
    /\ UNCHANGED otherVars

\* ---- connection ---------------------------------------------------------
\* The connection object exists.
Live(c) == conns[c].made /\ ~conns[c].dead

\* disconnect without the test of disconnect_func.
FiresOnNoFuncTest(r) == r.connected

\* if (connected && disconnect_func)
FiresOn(r) == r.connected /\ r.func # NoFunc

\* connected = false forgotten.
AfterDisconnectNoReset(r) == r

\* connected = false;
AfterDisconnect(r) == [r EXCEPT !.connected = FALSE]

\* The closures [this, id] { this->disconnect_by_id(id); } of the handles
\* hs, run in order on the subscriber lists sl; a closure whose signal is
\* destroyed has a dangling this and is left out here (see Fire).
RECURSIVE RemoveAll(_, _)
RemoveAll(sl, hs) ==
    IF hs = <<>> THEN sl
    ELSE LET h == Head(hs) IN
            RemoveAll(IF h # NoFunc /\ sig_alive[h[1]]
                      THEN [sl EXCEPT ![h[1]] = disconnect_by_id(@, h[2])]
                      ELSE sl,
                      Tail(hs))

\* the closures bound to the identifier only: the entry with that identifier
\* is erased from the list of every signal.
FireAnySignal(hs) ==
    /\ slots' = [s \in Signals |->
                    SelectSeq(slots[s],
                              LAMBDA w : \A i \in DOMAIN hs : hs[i][2] # w.id)]
    /\ fired' = [h \in Handles |->
                    fired[h] + Cardinality({i \in DOMAIN hs : hs[i] = h})]
    /\ fault' = fault

\* the closures bound to the entry itself: the entry is erased from the list
\* that holds it, whichever signal that is.
FireWhereHeld(hs) ==
    /\ slots' = [s \in Signals |->
                    SelectSeq(slots[s],
                              LAMBDA w : \A i \in DOMAIN hs : hs[i] # <<w.sig, w.id>>)]
    /\ fired' = [h \in Handles |->
                    fired[h] + Cardinality({i \in DOMAIN hs : hs[i] = h})]
    /\ fault' = fault

\* disconnect_func() for each of hs.  Calling an empty std::function throws
\* std::bad_function_call (out of a noexcept function or a destructor:
\* std::terminate).  Calling a closure whose signal is destroyed is
\* undefined behaviour: the program goes on or is terminated.
Fire(hs) ==
    /\ slots' = RemoveAll(slots, hs)
    /\ fired' = [h \in Handles |->
                    fired[h] + Cardinality({i \in DOMAIN hs : hs[i] = h})]
    /\ IF \E i \in DOMAIN hs : hs[i] = NoFunc
       THEN fault' = "crash"
       ELSE IF \E i \in DOMAIN hs : ~sig_alive[hs[i][1]]
            THEN fault' \in {"dangling", "crash"}
            ELSE fault' = fault

\* What disconnect() of the connection r calls.
Calls(r) == IF FiresOn(r) THEN <<r.func>> ELSE <<>>

\* The source of a move: connected = false, and disconnect_func is left in
\* a valid but unspecified state (empty, or still holding the closure).
MovedFrom(r) == {[r EXCEPT !.connected = FALSE, !.func = f] : f \in {NoFunc, r.func}}

\* disconnect that also erases the entry from the pending queue.
DisconnectRetract(c) ==
    /\ CanCall
    /\ Live(c)
    /\ Fire(Calls(conns[c]))
    /\ slots_queue' = IF FiresOn(conns[c])
                      THEN [slots_queue EXCEPT ![SigOf(conns[c].func[1])] =
                              SelectSeq(@, LAMBDA q : ~(q.w.sig = conns[c].func[1]
                                                        /\ q.w.id = conns[c].func[2]))]
                      ELSE slots_queue
    /\ conns' = [conns EXCEPT ![c] = AfterDisconnect(@)]
    /\ UNCHANGED <<next_id, emitting, held, stack, aggs, sig_alive>>
    /\ KeepHistory
    /\ UNCHANGED otherVars

\* ---- connection::disconnect -------------------------------------------
Disconnect(c) ==
    /\ CanCall
    /\ Live(c)
    /\ Fire(Calls(conns[c]))
    /\ conns' = [conns EXCEPT ![c] = AfterDisconnect(@)]
    /\ UNCHANGED <<next_id, slots_queue, emitting, held, stack, aggs, sig_alive>>
    /\ KeepHistory
    /\ UNCHANGED otherVars

\* pop_back instead of clear: only the last entry leaves the list.
DisconnectAllPopBack(s) ==
    /\ CanCall
    /\ sig_alive[s]
    /\ slots' = [slots EXCEPT ![s] = SubSeq(@, 1, Len(@) - 1)]
    /\ UNCHANGED <<next_id, slots_queue, emitting, conns, held, stack>>
    /\ KeepHistory
    /\ UNCHANGED lifeVars
    /\ UNCHANGED otherVars

\* disconnect_all that also clears the pending queue.
DisconnectAllClearsQueue(s) ==
    /\ CanCall
    /\ sig_alive[s]
    /\ slots' = [slots EXCEPT ![s] = <<>>]
    /\ slots_queue' = [slots_queue EXCEPT ![SigOf(s)] = <<>>]
    /\ UNCHANGED <<next_id, emitting, conns, held, stack>>
    /\ KeepHistory
    /\ UNCHANGED lifeVars
    /\ UNCHANGED otherVars

\* ---- signal::disconnect_all --------------------------------------------
DisconnectAll(s) ==
    /\ CanCall
    /\ sig_alive[s]
    /\ slots' = [slots EXCEPT ![s] = <<>>]
    /\ UNCHANGED <<next_id, slots_queue, emitting, conns, held, stack>>
    /\ KeepHistory
    /\ UNCHANGED lifeVars
    /\ UNCHANGED otherVars

\* ---- signal::slot_count ------------------------------------------------
slot_count(s) == Len(cleanup_expired(slots[s]))

\* return slots.size() without cleanup_expired().
SlotCountNoPrune(s) ==
    /\ CanCall
    /\ sig_alive[s]
    /\ slots' = slots
    /\ UNCHANGED <<next_id, slots_queue, emitting, conns, held, stack>>
    /\ KeepHistory
    /\ UNCHANGED lifeVars
    /\ UNCHANGED otherVars

\* cleanup_expired(); return slots.size();
SlotCount(s) ==
    /\ CanCall
    /\ sig_alive[s]
    /\ slots' = [slots EXCEPT ![s] = cleanup_expired(@)]
    /\ UNCHANGED <<next_id, slots_queue, emitting, conns, held, stack>>
    /\ KeepHistory
    /\ UNCHANGED lifeVars
    /\ UNCHANGED otherVars

\* ---- user code drops its last shared_ptr to an owner -------------------
DestroyOwner(o) ==
    /\ CanCall
    /\ held[o]
    /\ held' = [held EXCEPT ![o] = FALSE]
    /\ UNCHANGED <<slots, next_id, slots_queue, emitting, conns, stack>>
    /\ KeepHistory
    /\ UNCHANGED lifeVars
    /\ UNCHANGED otherVars

\* the destructor left empty: disconnect() is not called.
DestroyNoDisconnect(c) ==
    /\ CanCall
    /\ Live(c)
    /\ conns' = [conns EXCEPT ![c] = [@ EXCEPT !.dead = TRUE, !.func = NoFunc]]
    /\ UNCHANGED <<slots, fired, fault>>
    /\ UNCHANGED <<next_id, slots_queue, emitting, held, stack, aggs, sig_alive>>
    /\ KeepHistory
    /\ UNCHANGED otherVars

\* ---- connection::~connection: disconnect(), then the members go --------
Destroy(c) ==
    /\ CanCall
    /\ Live(c)
    /\ Fire(Calls(conns[c]))
    /\ conns' = [conns EXCEPT ![c] =
                    [AfterDisconnect(@) EXCEPT !.dead = TRUE, !.func = NoFunc]]
    /\ UNCHANGED <<next_id, slots_queue, emitting, held, stack, aggs, sig_alive>>
    /\ KeepHistory
    /\ UNCHANGED otherVars

\* ---- connection::connection() = default --------------------------------
DefaultConstruct(c) ==
    /\ CanCall
    /\ ~conns[c].made
    /\ conns' = [conns EXCEPT ![c] =
                    [made |-> TRUE, connected |-> TRUE, func |-> NoFunc, dead |-> FALSE]]
    /\ UNCHANGED <<slots, next_id, slots_queue, emitting, held, stack, lifeVars>>
    /\ KeepHistory
    /\ UNCHANGED otherVars

\* other.connected = false forgotten in the move constructor.
MoveConstructKeepsSource(c, other) ==
    /\ CanCall
    /\ ~conns[c].made
    /\ Live(other)
    /\ \E f \in {NoFunc, conns[other].func} :
            conns' = [conns EXCEPT
                        ![c] = [made |-> TRUE, connected |-> conns[other].connected,
                                func |-> conns[other].func, dead |-> FALSE],
                        ![other] = [@ EXCEPT !.func = f]]
    /\ UNCHANGED <<slots, next_id, slots_queue, emitting, held, stack, lifeVars>>
    /\ KeepHistory
    /\ UNCHANGED otherVars

\* ---- connection::connection(connection&& other) ------------------------
MoveConstruct(c, other) ==
    /\ CanCall
    /\ ~conns[c].made
    /\ Live(other)
    /\ \E m \in MovedFrom(conns[other]) :
            conns' = [conns EXCEPT
                        ![c] = [made |-> TRUE, connected |-> conns[other].connected,
                                func |-> conns[other].func, dead |-> FALSE],
                        ![other] = m]
    /\ UNCHANGED <<slots, next_id, slots_queue, emitting, held, stack, lifeVars>>
    /\ KeepHistory
    /\ UNCHANGED otherVars

\* move assignment without the disconnect() of the target.
MoveAssignNoDisconnect(c, other) ==
    /\ CanCall
    /\ Live(c) /\ Live(other)
    /\ IF c = other
       THEN UNCHANGED conns
       ELSE \E m \in MovedFrom(conns[other]) :
                conns' = [conns EXCEPT
                            ![c] = [@ EXCEPT !.func = conns[other].func,
                                             !.connected = conns[other].connected],
                            ![other] = m]
    /\ UNCHANGED <<slots, fired, fault>>
    /\ UNCHANGED <<next_id, slots_queue, emitting, held, stack, aggs, sig_alive>>
    /\ KeepHistory
    /\ UNCHANGED otherVars

\* ---- connection::operator=(connection&& other) -------------------------
MoveAssign(c, other) ==
    /\ CanCall
    /\ Live(c) /\ Live(other)
    /\ IF c = other
       THEN UNCHANGED <<conns, slots, fired, fault>>
       ELSE /\ Fire(Calls(conns[c]))
            /\ \E m \in MovedFrom(conns[other]) :
                    conns' = [conns EXCEPT
                                ![c] = [@ EXCEPT !.func = conns[other].func,
                                                 !.connected = conns[other].connected],
                                ![other] = m]
    /\ UNCHANGED <<next_id, slots_queue, emitting, held, stack, aggs, sig_alive>>
    /\ KeepHistory
    /\ UNCHANGED otherVars

\* ---- auto_disconnect::add_connection -----------------------------------
\* connections.push_back(std::move(conn)): the element is move-constructed
\* from conn.  User code hands over a connection it has not disconnected.
AddConnection(a, c) ==
    /\ CanCall
    /\ aggs[a].alive
    /\ Live(c) /\ conns[c].connected
    /\ aggs' = [aggs EXCEPT ![a].connections =
                    Append(@, [func |-> conns[c].func, connected |-> conns[c].connected])]
    /\ \E m \in MovedFrom(conns[c]) : conns' = [conns EXCEPT ![c] = m]
    /\ UNCHANGED <<slots, next_id, slots_queue, emitting, held, stack,
                   sig_alive, fired, fault>>
    /\ KeepHistory
    /\ UNCHANGED otherVars

\* What the destructors of the elements of a connections vector call, from
\* the first element to the last.
RECURSIVE CallsOfAll(_)
CallsOfAll(els) ==
    IF els = <<>> THEN <<>> ELSE Calls(Head(els)) \o CallsOfAll(Tail(els))

\* the adopted connections are released without being destroyed.
DestroyAggregatorLeak(a) ==
    /\ CanCall
    /\ aggs[a].alive
    /\ aggs' = [aggs EXCEPT ![a] = [alive |-> FALSE, connections |-> <<>>]]
    /\ UNCHANGED <<slots, fired, fault>>
    /\ UNCHANGED <<next_id, slots_queue, emitting, conns, held, stack, sig_alive>>
    /\ KeepHistory
    /\ UNCHANGED otherVars

\* ---- auto_disconnect::~auto_disconnect: the vector destroys its elements
DestroyAggregator(a) ==
    /\ CanCall
    /\ aggs[a].alive
    /\ Fire(CallsOfAll(aggs[a].connections))
    /\ aggs' = [aggs EXCEPT ![a] = [alive |-> FALSE, connections |-> <<>>]]
    /\ UNCHANGED <<next_id, slots_queue, emitting, conns, held, stack, sig_alive>>
    /\ KeepHistory
    /\ UNCHANGED otherVars

\* ---- signal::~signal (implicit): the slots vector is destroyed -----------
\* Not while an emission of the signature is running.
DestroySignal(s) ==
    /\ Running
    /\ stack = <<>>
    /\ sig_alive[s]
    /\ sig_alive' = [sig_alive EXCEPT ![s] = FALSE]
    /\ slots' = [slots EXCEPT ![s] = <<>>]
    /\ UNCHANGED <<next_id, slots_queue, emitting, conns, held, stack,
                   aggs, fired, fault>>
    /\ KeepHistory
    /\ UNCHANGED otherVars

\* ---- signal& operator=(signal&&) = default ------------------------------
\* Memberwise: slots = std::move(other.slots), which leaves other.slots
\* empty, and next_id = other.next_id.  The static members are not touched.
\* Not while an emission is running.
MoveAssignSignal(s, other) ==
    /\ Running
    /\ stack = <<>>
    /\ s # other
    /\ sig_alive[s] /\ sig_alive[other]
    /\ SigOf(s) = SigOf(other)
    /\ slots' = [slots EXCEPT ![s] = slots[other], ![other] = <<>>]
    /\ next_id' = [next_id EXCEPT ![s] = next_id[other]]
    /\ UNCHANGED <<slots_queue, emitting, conns, held, stack>>
    /\ KeepHistory
    /\ UNCHANGED lifeVars
    /\ UNCHANGED otherVars

\* ---- signal(signal&&) = default ------------------------------------------
\* ant::signal<...> s = std::move(other); memberwise as well.  s is an
\* instance that has not been used before.
MoveConstructSignal(s, other) ==
    /\ next_id[s] = 0
    /\ slots[s] = <<>>
    /\ MoveAssignSignal(s, other)

\* ---- user code: a slot that re-emits 2 when it receives 1 ----------------
\*   sig.connect([&](int v) { if (v == 1) sig.emit(2); });
\* The callable being executed received 1 and has not called emit yet.
WantsReemit ==
    /\ stack # <<>>
    /\ Top.busy
    /\ invoked[Len(invoked)].got = 1
    /\ \A k \in DOMAIN emits : k > 1 => emits[k].from # Len(invoked)

SlotReemits ==
    /\ WantsReemit
    /\ \E s \in Signals : s = Top.cur.sig /\ Emit(s, 2)

SlotEnds ==
    /\ ~WantsReemit
    /\ SlotReturn

\* connect and emit called by the main program, outside of any slot
ConnectAtTop(s) == stack = <<>> /\ Connect(s)

EmitAtTop(s, v) == stack = <<>> /\ Emit(s, v)

DisconnectAtTop(c) == stack = <<>> /\ Disconnect(c)

\* ---- signal::emit called by a thread, statement by statement ------------
\* The code takes no lock and uses no atomic: the statements of two calls
\* interleave.  The history tag of an invocation is the calling thread.
ThreadVars == <<next_id, conns, held, stack, nested, emits, thrown,
                aggs, sig_alive, fired, sigof>>

At(t, pc) == Running /\ threads[t].pc = pc

Goto(t, pc) == [threads EXCEPT ![t].pc = pc]

\* cleanup_expired(); auto slots_copy = slots;
TEmit(t, s, v) ==
    /\ At(t, "idle")
    /\ sig_alive[s]
    /\ slots' = [slots EXCEPT ![s] = cleanup_expired(@)]
    /\ threads' = [threads EXCEPT ![t] =
                    [pc |-> "push", sig |-> s, args |-> v,
                     slots_copy |-> cleanup_expired(slots[s]), i |-> 1,
                     wrapper |-> NoEntry]]
    /\ UNCHANGED <<slots_queue, emitting, invoked, fault>>
    /\ UNCHANGED ThreadVars

\* for (wrapper : slots_copy) slots_queue.push_back(wrapper);
TPush(t) ==
    /\ At(t, "push")
    /\ LET r == threads[t]
           g == SigOf(r.sig)
       IN  IF r.i <= Len(r.slots_copy)
           THEN /\ slots_queue' = [slots_queue EXCEPT ![g] =
                                    Append(@, [w |-> r.slots_copy[r.i], call |-> t])]
                /\ threads' = [threads EXCEPT ![t].i = r.i + 1]
           ELSE /\ threads' = Goto(t, "test")
                /\ UNCHANGED slots_queue
    /\ UNCHANGED <<slots, emitting, invoked, fault>>
    /\ UNCHANGED ThreadVars

\* if (!emitting)
TTest(t) ==
    /\ At(t, "test")
    /\ threads' = Goto(t, IF emitting[SigOf(threads[t].sig)] THEN "returned" ELSE "set")
    /\ UNCHANGED <<slots, slots_queue, emitting, invoked, fault>>
    /\ UNCHANGED ThreadVars

\* emitting = true;
TSet(t) ==
    /\ At(t, "set")
    /\ emitting' = [emitting EXCEPT ![SigOf(threads[t].sig)] = TRUE]
    /\ threads' = Goto(t, "loop")
    /\ UNCHANGED <<slots, slots_queue, invoked, fault>>
    /\ UNCHANGED ThreadVars

\* while (!slots_queue.empty())
TLoop(t) ==
    /\ At(t, "loop")
    /\ threads' = Goto(t, IF slots_queue[SigOf(threads[t].sig)] = <<>>
                          THEN "clear" ELSE "front")
    /\ UNCHANGED <<slots, slots_queue, emitting, invoked, fault>>
    /\ UNCHANGED ThreadVars

\* auto wrapper = slots_queue.front();  On a deque that another thread has
\* emptied meanwhile this is undefined: the program is terminated, or goes
\* on with a wrapper that is no entry.
TFront(t) ==
    /\ At(t, "front")
    /\ LET q == slots_queue[SigOf(threads[t].sig)]
       IN  IF q # <<>>
           THEN /\ threads' = [threads EXCEPT ![t].pc = "pop",
                                              ![t].wrapper = Head(q).w]
                /\ fault' = fault
           ELSE /\ threads' = [threads EXCEPT ![t].pc = "pop",
                                              ![t].wrapper = NoEntry]
                /\ fault' \in {"corrupt", "crash"}
    /\ UNCHANGED <<slots, slots_queue, emitting, invoked>>
    /\ UNCHANGED ThreadVars

\* slots_queue.pop_front();  Undefined on an empty deque.
TPop(t) ==
    /\ At(t, "pop")
    /\ LET g == SigOf(threads[t].sig)
       IN  IF slots_queue[g] # <<>>
           THEN /\ slots_queue' = [slots_queue EXCEPT ![g] = Tail(@)]
                /\ fault' = fault
           ELSE /\ UNCHANGED slots_queue
                /\ fault' \in {"corrupt", "crash"}
    /\ threads' = Goto(t, "call")
    /\ UNCHANGED <<slots, emitting, invoked>>
    /\ UNCHANGED ThreadVars

\* try { wrapper->slot(args...); } catch (...) {}
\* Through a wrapper that is no entry the call terminates the program.
TCall(t) ==
    /\ At(t, "call")
    /\ IF threads[t].wrapper = NoEntry
       THEN /\ fault' = "crash"
            /\ UNCHANGED invoked
       ELSE /\ invoked' = Append(invoked, [w |-> threads[t].wrapper,
                                           got |-> threads[t].args,
                                           call |-> t, ran |-> TRUE])
            /\ fault' = fault
    /\ threads' = Goto(t, "loop")
    /\ UNCHANGED <<slots, slots_queue, emitting>>
    /\ UNCHANGED ThreadVars

\* emitting = false; and emit returns
TClear(t) ==
    /\ At(t, "clear")
    /\ emitting' = [emitting EXCEPT ![SigOf(threads[t].sig)] = FALSE]
    /\ threads' = Goto(t, "returned")
    /\ UNCHANGED <<slots, slots_queue, invoked, fault>>
    /\ UNCHANGED ThreadVars

\* connect called before the threads are started
ConnectBefore(s) == (\A t \in Threads : threads[t].pc = "idle") /\ Connect(s)

Next ==
    \/ \E s \in Signals : Connect(s)
    \/ \E s \in Signals, o \in Owners : ConnectMember(s, o)
    \/ \E s \in Signals, v \in Values : Emit(s, v)
    \/ DrainStep
    \/ SlotReturn
    \/ SlotThrow
    \/ DrainEnd
    \/ \E h \in Handles : Disconnect(h)
    \/ \E s \in Signals : DisconnectAll(s)
    \/ \E s \in Signals : SlotCount(s)
    \/ \E o \in Owners : DestroyOwner(o)

Spec == Init /\ [][Next]_vars

\* ---- further specifications ----------------------------------------------
\* The connection class: every operation of it, on the connections of plain
\* slots, between emissions.
NextConn ==
    \/ \E s \in Signals : Connect(s)
    \/ \E c \in ConnObjs : Disconnect(c)
    \/ \E c \in ConnObjs : Destroy(c)
    \/ \E c \in Extra : DefaultConstruct(c)
    \/ \E c \in Extra, other \in ConnObjs : MoveConstruct(c, other)
    \/ \E c \in ConnObjs, other \in ConnObjs : MoveAssign(c, other)

SpecConn == Init /\ [][NextConn]_vars

\* Connections that go out of scope, connected, disconnected or moved-from,
\* and the emissions before and after.
NextDtor ==
    \/ \E s \in Signals : Connect(s)
    \/ \E s \in Signals, v \in Values : Emit(s, v)
    \/ DrainStep
    \/ SlotReturn
    \/ DrainEnd
    \/ \E c \in ConnObjs : Disconnect(c)
    \/ \E c \in ConnObjs : Destroy(c)
    \/ \E c \in Extra, other \in ConnObjs : MoveConstruct(c, other)

SpecDtor == Init /\ [][NextDtor]_vars

\* Objects derived from auto_disconnect that adopt connections and die.
NextAgg ==
    \/ \E s \in Signals : Connect(s)
    \/ \E c \in Extra : DefaultConstruct(c)
    \/ \E a \in Aggs, c \in ConnObjs : AddConnection(a, c)
    \/ \E a \in Aggs : DestroyAggregator(a)

SpecAgg == Init /\ [][NextAgg]_vars

\* Signals that are destroyed while connections to them exist.
NextSig ==
    \/ \E s \in Signals : Connect(s)
    \/ \E c \in ConnObjs : Disconnect(c)
    \/ \E c \in ConnObjs : Destroy(c)
    \/ \E s \in Signals : DestroySignal(s)

SpecSig == Init /\ [][NextSig]_vars

\* Signals that are move-assigned while connections to them exist.
NextMove ==
    \/ \E s \in Signals : Connect(s)
    \/ \E c \in ConnObjs : Disconnect(c)
    \/ \E s \in Signals, other \in Signals : MoveAssignSignal(s, other)

SpecMove == Init /\ [][NextMove]_vars

\* Every slot is the slot that re-emits 2 when it receives 1.
NextReemit ==
    \/ \E s \in Signals : ConnectAtTop(s)
    \/ \E c \in Handles : DisconnectAtTop(c)
    \/ \E s \in Signals, v \in Values : EmitAtTop(s, v)
    \/ DrainStep
    \/ SlotReemits
    \/ SlotEnds
    \/ DrainEnd

SpecReemit == Init /\ [][NextReemit]_vars

\* Two threads that call emit once each, on signals of one signature.
NextThr ==
    \/ \E s \in Signals : ConnectBefore(s)
    \/ \E t \in Threads, s \in Signals, v \in Values : TEmit(t, s, v)
    \/ \E t \in Threads : TPush(t)
    \/ \E t \in Threads : TTest(t)
    \/ \E t \in Threads : TSet(t)
    \/ \E t \in Threads : TLoop(t)
    \/ \E t \in Threads : TFront(t)
    \/ \E t \in Threads : TPop(t)
    \/ \E t \in Threads : TCall(t)
    \/ \E t \in Threads : TClear(t)

SpecThr == Init /\ [][NextThr]_vars

\* Two signals of different argument types.
NextTypes ==
    \/ \E s \in Signals : Connect(s)
    \/ \E s \in Signals, v \in Values : Emit(s, v)
    \/ DrainStep
    \/ SlotReturn
    \/ DrainEnd

SpecTypes == InitTypes /\ [][NextTypes]_vars

\* Every operation of the signal class, on two signals of different
\* argument types.
SpecQuiet == InitTypes /\ [][Next]_vars

\* Connections that outlive their entries: entries leave through
\* disconnect_all and through pruning, and slots are connected afterwards.
NextStale ==
    \/ \E s \in Signals : Connect(s)
    \/ \E s \in Signals, o \in Owners : ConnectMember(s, o)
    \/ \E o \in Owners : DestroyOwner(o)
    \/ \E s \in Signals : SlotCount(s)
    \/ \E s \in Signals : DisconnectAll(s)
    \/ \E c \in ConnObjs : Disconnect(c)
    \/ \E c \in ConnObjs : Destroy(c)

SpecStale == Init /\ [][NextStale]_vars

\* Signals that are moved while connections to them exist, connections that
\* are disconnected afterwards, and emissions; the slots call nothing.
NextMoved ==
    \/ \E s \in Signals : ConnectAtTop(s)
    \/ \E s \in Signals, other \in Signals : MoveConstructSignal(s, other)
    \/ \E s \in Signals, other \in Signals : MoveAssignSignal(s, other)
    \/ \E c \in ConnObjs : DisconnectAtTop(c)
    \/ \E s \in Signals, v \in Values : EmitAtTop(s, v)
    \/ DrainStep
    \/ SlotReturn
    \/ DrainEnd

SpecMoved == Init /\ [][NextMoved]_vars

\* Emissions started by emit and by the call operator, at top level and
\* from slots, on lists with plain and owner-bound entries.
NextCall ==
    \/ \E s \in Signals : Connect(s)
    \/ \E s \in Signals, o \in Owners : ConnectMember(s, o)
    \/ \E o \in Owners : DestroyOwner(o)
    \/ \E s \in Signals, v \in Values : Call(s, v)
    \/ \E s \in Signals, v \in Values : Emit(s, v)
    \/ DrainStep
    \/ SlotReturn
    \/ DrainEnd

SpecCall == Init /\ [][NextCall]_vars

\* ---- properties --------------------------------------------------------
\* The outermost emit has returned and its history is at hand.
Done == stack = <<>> /\ emits # <<>>

\* The entries of a sequence of invocation records.
Ws(recs) == [i \in 1 .. Len(recs) |-> recs[i].w]

\* The invocations of the entries that emit call k enqueued.
InvOf(k) == SelectSeq(invoked, LAMBDA r : r.call = k)

StrictlyIncreasingIds(list) ==
    \A i, j \in DOMAIN list : i < j => list[i].id < list[j].id

\* C1: a single non-reentrant emit (no emit called from a slot) on a signal
\* with N >= 0 live slots invokes the callable of each of them exactly once,
\* in registration order, and nothing else; when the slots call no
\* operation at all, these are exactly the entries of the signal's list and
\* every body is entered.
C1_SingleEmitInvokesEachOnce ==
    (Done /\ Len(emits) = 1) =>
        /\ Ws(invoked) = emits[1].snap
        /\ StrictlyIncreasingIds(Ws(invoked))
        /\ \A i \in DOMAIN invoked :
                invoked[i].w.sig = emits[1].sig /\ invoked[i].call = 1
        /\ nested = 0 =>
                /\ Ws(invoked) = slots[emits[1].sig]
                /\ \A i \in DOMAIN invoked : invoked[i].ran

C1_Witness ==
    /\ Done /\ Len(emits) = 1 /\ nested = 0
    /\ Len(invoked) = 2
    /\ invoked[1].w.id = 0 /\ invoked[2].w.id = 1

\* C2: S has slots A then B; S.emit(1) is called at top level and A, in its
\* invocation for that emission, calls S.emit(2) (and nothing else is called
\* from a slot).  The invocations are A(1), B(1), A(2), B(2).
C2_ReentrantScenarioOrder ==
    ( /\ Done /\ Len(emits) = 2 /\ nested = 1
      /\ emits[1].sig = emits[2].sig
      /\ emits[1].args = 1 /\ emits[2].args = 2
      /\ Len(emits[1].snap) = 2 /\ emits[2].snap = emits[1].snap
      /\ emits[2].from = 1 )
    => [i \in 1 .. Len(invoked) |-> <<invoked[i].w, invoked[i].got>>]
         = << <<emits[1].snap[1], 1>>, <<emits[1].snap[2], 1>>,
              <<emits[1].snap[1], 2>>, <<emits[1].snap[2], 2>> >>

\* C3: every invocation receives the arguments of the emit call that
\* enqueued the entry.
C3_ArgsOfEnqueuingEmit ==
    \A i \in DOMAIN invoked : invoked[i].got = emits[invoked[i].call].args

\* C4: when the outermost emit has returned, every emit call of the emission,
\* outer or nested, has had each entry of its snapshot invoked exactly once
\* (in snapshot order), and nothing else was invoked.
C4_NoLostNoDuplicate ==
    Done =>
        /\ \A k \in DOMAIN emits : Ws(InvOf(k)) = emits[k].snap
        /\ \A i \in DOMAIN invoked : invoked[i].call \in DOMAIN emits
        /\ \A g \in Signatures : slots_queue[g] = <<>>

C4_Witness ==
    /\ Done /\ Len(emits) >= 2
    /\ \A k \in DOMAIN emits : Len(emits[k].snap) = 2
    /\ emits[2].from = 1

\* A step in which emit is called from inside a slot.
NestedEmitStep == stack # <<>> /\ Len(emits') = Len(emits) + 1

\* A step in which a callable is invoked.
InvokeStep == Len(invoked') = Len(invoked) + 1

\* C5: an emit call made while the flag of its signature is set only appends
\* its snapshot to the pending queue and returns, invoking nothing; there is
\* at most one drain loop per signature, and no callable of a signature is
\* invoked while another callable of that signature is executing.
C5_ReentrantEmitOnlyEnqueues ==
    /\ [][ (NestedEmitStep /\ emitting[SigOf(emits'[Len(emits')].sig)]) =>
                LET e == emits'[Len(emits')]
                    g == SigOf(e.sig)
                IN  /\ stack' = stack
                    /\ invoked' = invoked
                    /\ emitting' = emitting
                    /\ Len(slots_queue'[g]) = Len(slots_queue[g]) + Len(e.snap)
                    /\ SubSeq(slots_queue'[g], 1, Len(slots_queue[g])) = slots_queue[g]
                    /\ \A i \in DOMAIN e.snap :
                            slots_queue'[g][Len(slots_queue[g]) + i].w = e.snap[i] ]_vars
    /\ [](\A g \in Signatures :
            Cardinality({k \in DOMAIN stack : stack[k].sg = g}) <= 1)
    /\ [][ InvokeStep =>
                \A k \in DOMAIN stack :
                    stack[k].sg = SigOf(invoked'[Len(invoked')].w.sig) => ~stack[k].busy ]_vars

C5_Witness ==
    /\ stack # <<>> /\ Top.busy
    /\ Len(emits) = 2 /\ emits[2].snap # <<>>
    /\ Len(slots_queue["int"]) >= 2

\* A step in which emit is called, at top level or from a slot.
EmitStep == (stack = <<>> /\ stack' # <<>>) \/ NestedEmitStep

\* A step in which connection h fires its removal action.
FiresStep(h) == conns[h].made /\ conns[h].connected /\ ~conns'[h].connected

InList(list, id) == \E i \in DOMAIN list : list[i].id = id

Disconnected(w) ==
    conns[<<w.sig, w.id>>].made /\ ~conns[<<w.sig, w.id>>].connected

\* C6: disconnecting a Connection whose slot is in the subscriber list (and
\* still there once slot_count() has been taken, i.e. not an expired entry
\* that slot_count() itself removes) makes slot_count() one less than it
\* was, and no emit call that starts afterwards has the slot in its snapshot.
C6_DisconnectDecrementsAndExcludes ==
    /\ [][ \A h \in Handles :
                (FiresStep(h) /\ InList(cleanup_expired(slots[h[1]]), h[2])) =>
                    slot_count(h[1])' = slot_count(h[1]) - 1 ]_vars
    /\ [][ EmitStep =>
                \A i \in DOMAIN emits'[Len(emits')].snap :
                    ~Disconnected(emits'[Len(emits')].snap[i]) ]_vars
    /\ [](\A i \in DOMAIN invoked :
                Disconnected(invoked[i].w) => nested > 0)

C6_Witness ==
    /\ Done /\ nested = 0
    /\ \E h \in Handles :
            /\ conns[h].made /\ ~conns[h].connected
            /\ emits[1].sig = h[1]
            /\ next_id[h[1]] = 2
            /\ Len(invoked) = 1 /\ invoked[1].w.id # h[2]

\* C7: a Connection disconnected from inside a slot while its entry is in
\* the pending queue: the queue is left as it is, the entry leaves the
\* subscriber list, and the entry is still invoked for the emission that
\* enqueued it.
C7_DisconnectDoesNotRetract ==
    /\ [][ \A h \in Handles :
                ( /\ FiresStep(h) /\ stack # <<>>
                  /\ \E i \in DOMAIN slots_queue[SigOf(h[1])] :
                        /\ slots_queue[SigOf(h[1])][i].w.sig = h[1]
                        /\ slots_queue[SigOf(h[1])][i].w.id = h[2] )
                => /\ slots_queue' = slots_queue
                   /\ ~InList(slots'[h[1]], h[2]) ]_vars
    /\ [](Done =>
            \A k \in DOMAIN emits : \A i \in DOMAIN emits[k].snap :
                Disconnected(emits[k].snap[i]) =>
                    /\ ~InList(slots[emits[k].sig], emits[k].snap[i].id)
                    /\ Cardinality({j \in DOMAIN invoked :
                            /\ invoked[j].call = k
                            /\ invoked[j].w = emits[k].snap[i]}) = 1)

C7_Witness ==
    /\ stack # <<>> /\ Top.busy /\ Len(invoked) = 1
    /\ \E i \in DOMAIN slots_queue["int"] :
            LET w == slots_queue["int"][i].w IN
                /\ Disconnected(w)
                /\ w # Top.cur
                /\ ~InList(slots[w.sig], w.id)

\* C8: the method of an owner-bound slot never runs once its owner is
\* destroyed: an emit call prunes the entry before it takes its snapshot,
\* and an entry already in the pending queue is invoked without entering
\* the method and without any change to the subscriber lists.
C8_NoCallIntoDestroyedOwner ==
    /\ [](\A k \in DOMAIN stack :
            (stack[k].busy /\ stack[k].cur.owner # NoOwner) =>
                ~expired(stack[k].cur.owner))
    /\ [][ InvokeStep =>
                LET r == invoked'[Len(invoked')] IN
                    (r.w.owner # NoOwner /\ expired(r.w.owner)) =>
                        /\ ~r.ran
                        /\ slots' = slots
                        /\ stack' = stack ]_vars
    /\ [][ EmitStep =>
                \A i \in DOMAIN emits'[Len(emits')].snap :
                    LET w == emits'[Len(emits')].snap[i] IN
                        ~(w.owner # NoOwner /\ expired(w.owner)) ]_vars

C8_Witness ==
    \E i \in DOMAIN invoked :
        /\ ~invoked[i].ran
        /\ invoked[i].w.owner # NoOwner
        /\ InList(slots[invoked[i].w.sig], invoked[i].w.id)

\* new is old without its expired owner-bound entries, and nothing else is
\* gone or added or reordered.
ExactPrune(old, new) ==
    /\ \A i \in DOMAIN new :
            /\ \E a \in DOMAIN old : old[a] = new[i]
            /\ new[i].owner = NoOwner \/ ~expired(new[i].owner)
    /\ \A a \in DOMAIN old :
            (old[a].owner = NoOwner \/ ~expired(old[a].owner)) =>
                \E i \in DOMAIN new : new[i] = old[a]
    /\ \A i, j \in DOMAIN new :
            i < j => \E a, b \in DOMAIN old :
                        a < b /\ old[a] = new[i] /\ old[b] = new[j]

\* C9: destroying an owner leaves every subscriber list as it is; connect,
\* emit and slot_count remove from their signal's list exactly the entries
\* whose owner is set and expired, keeping the others in order; a Connection
\* disconnect and disconnect_all remove no expired entry (of another
\* identifier, of another signal).
C9_LazyExactPruning ==
    /\ [][ held' # held => slots' = slots ]_vars
    /\ [][ \A s \in Signals :
                next_id'[s] # next_id[s] =>
                    /\ slots'[s] # <<>>
                    /\ ExactPrune(slots[s], SubSeq(slots'[s], 1, Len(slots'[s]) - 1)) ]_vars
    /\ [][ EmitStep =>
                LET s == emits'[Len(emits')].sig IN
                    ExactPrune(slots[s], slots'[s]) ]_vars
    /\ [][ \A s \in Signals : SlotCount(s) => ExactPrune(slots[s], slots'[s]) ]_vars
    /\ [][ \A h \in Handles :
                FiresStep(h) =>
                    /\ \A s \in Signals \ {h[1]} : slots'[s] = slots[s]
                    /\ \A a \in DOMAIN slots[h[1]] :
                            slots[h[1]][a].id # h[2] =>
                                \E i \in DOMAIN slots'[h[1]] :
                                    slots'[h[1]][i] = slots[h[1]][a] ]_vars
    /\ [][ \A s \in Signals :
                DisconnectAll(s) =>
                    \A s2 \in Signals \ {s} : slots'[s2] = slots[s2] ]_vars

C9_Witness ==
    \E s \in Signals :
        /\ Len(slots[s]) = 2
        /\ slots[s][1].owner # NoOwner /\ expired(slots[s][1].owner)
        /\ slots[s][2].owner = NoOwner

\* C10: a callable that throws does not end the dispatch: the error stays
\* inside emit, the loop goes on with the next queued entry, every entry of
\* every snapshot is invoked, and when the emission returns the queue is
\* empty and the flag is clear.
C10_ThrowingSlotIsIsolated ==
    /\ [][ SlotThrow =>
                /\ Len(stack') = Len(stack)
                /\ ~stack'[Len(stack')].busy
                /\ slots_queue' = slots_queue
                /\ emitting' = emitting ]_vars
    /\ []((Done /\ thrown) =>
            /\ \A g \in Signatures : ~emitting[g] /\ slots_queue[g] = <<>>
            /\ \A k \in DOMAIN emits : Ws(InvOf(k)) = emits[k].snap)

C10_Witness ==
    /\ stack # <<>> /\ Top.busy
    /\ thrown /\ nested = 0
    /\ Len(invoked) = 2

\* C11: disconnect_all leaves the list empty and slot_count() at 0, however
\* many slots were registered; an emit called on a signal whose list is
\* empty, as disconnect_all leaves it, enqueues nothing and invokes nothing.
C11_DisconnectAllThenEmit ==
    /\ [][ \A s \in Signals :
                DisconnectAll(s) => (slots'[s] = <<>> /\ slot_count(s)' = 0) ]_vars
    /\ [][ (EmitStep /\ slots[emits'[Len(emits')].sig] = <<>>) =>
                /\ emits'[Len(emits')].snap = <<>>
                /\ slots_queue' = slots_queue
                /\ Len(invoked') <= Len(invoked) ]_vars
    /\ []((Done /\ Len(emits) = 1 /\ emits[1].snap = <<>>) => invoked = <<>>)

\* Both connections of the signal are still connected and bound to no
\* owner, so only disconnect_all can have emptied the list.
C11_Witness ==
    /\ Done /\ nested = 0 /\ invoked = <<>>
    /\ \E s \in Signals :
            /\ emits[1].sig = s /\ next_id[s] = 2 /\ slots[s] = <<>>
            /\ held["o1"]
            /\ conns[<<s, 0>>].connected /\ conns[<<s, 1>>].connected

\* An entry that left the list although its Connection is still connected
\* and its owner, if any, has not expired: disconnect_all removed it.
ClearedEntry(w) ==
    /\ ~InList(slots[w.sig], w.id)
    /\ conns[<<w.sig, w.id>>].connected
    /\ w.owner = NoOwner

\* C12: disconnect_all called from inside a slot empties the list and leaves
\* the pending queue as it is; the entries the emission enqueued are all
\* invoked before the outermost emit returns.
C12_DisconnectAllInSlotKeepsQueue ==
    /\ [][ \A s \in Signals :
                (DisconnectAll(s) /\ stack # <<>>) =>
                    /\ slots'[s] = <<>>
                    /\ slots_queue' = slots_queue
                    /\ stack' = stack ]_vars
    /\ [](Done =>
            \A k \in DOMAIN emits : \A i \in DOMAIN emits[k].snap :
                ClearedEntry(emits[k].snap[i]) =>
                    \E j \in DOMAIN invoked :
                        /\ invoked[j].call = k
                        /\ invoked[j].w = emits[k].snap[i]
                        /\ invoked[j].ran)

C12_Witness ==
    /\ Done /\ nested = 1 /\ Len(emits) = 1
    /\ Len(invoked) = 2
    /\ ClearedEntry(invoked[1].w) /\ ClearedEntry(invoked[2].w)

\* C20: X and Y have the same argument types; a slot of X calls Y.emit(v)
\* while X.emit drains.  Y.emit returns without invoking anything, Y's live
\* entries go to the end of the queue X's loop is draining, and X's loop
\* invokes them (with the arguments of X's emit) before X.emit returns.
C20_CrossInstanceSharing ==
    /\ [][ (NestedEmitStep /\ emits'[Len(emits')].sig # Top.cur.sig) =>
                LET e == emits'[Len(emits')]
                    g == SigOf(e.sig)
                IN  /\ SigOf(Top.cur.sig) = g
                    /\ stack' = stack
                    /\ invoked' = invoked
                    /\ e.snap = cleanup_expired(slots[e.sig])
                    /\ Len(slots_queue'[g]) = Len(slots_queue[g]) + Len(e.snap)
                    /\ \A i \in DOMAIN e.snap :
                            slots_queue'[g][Len(slots_queue[g]) + i].w = e.snap[i] ]_vars
    /\ [](Done =>
            \A k \in DOMAIN emits :
                emits[k].sig # emits[1].sig =>
                    /\ Ws(InvOf(k)) = emits[k].snap
                    /\ \A j \in DOMAIN invoked :
                            invoked[j].call = k => invoked[j].got = emits[1].args)

C20_Witness ==
    /\ Done /\ Len(emits) = 2
    /\ emits[1].sig = "X" /\ emits[2].sig = "Y"
    /\ emits[1].args # emits[2].args
    /\ Len(invoked) = 2
    /\ invoked[1].w.sig = "X" /\ invoked[2].w.sig = "Y"

\* The connection objects that still hold the right to remove the entry h.
Holders(h) ==
    {c \in ConnObjs : Live(c) /\ conns[c].connected /\ conns[c].func = h}

\* A disconnect() call runs on c: called by the user or by the destructor.
DisconnectCall(c) == Disconnect(c) \/ Destroy(c)

\* C13: over any sequence of disconnect() calls and the destruction of a
\* connection, the removal action of an entry fires at most once; a
\* disconnect() call leaves the connection disconnected, and a disconnect()
\* call on a disconnected connection fires nothing and changes no list.
C13_DisconnectIdempotent ==
    /\ [](\A h \in Handles : fired[h] <= 1)
    /\ [][\A c \in ConnObjs :
            DisconnectCall(c) =>
                /\ ~conns'[c].connected
                /\ ~conns[c].connected =>
                        /\ fired' = fired
                        /\ slots' = slots
                        /\ fault' = fault
                        /\ \A d \in ConnObjs \ {c} : conns'[d] = conns[d]]_vars

C13_Witness ==
    \E c \in Handles :
        /\ conns[c].dead /\ fired[c] = 1
        /\ ~InList(slots[c[1]], c[2])
        /\ Len(slots[c[1]]) = 1
        /\ \A e \in Extra : ~conns[e].made

\* C14: the destruction of a connected connection fires its removal action,
\* for the first and only time: the entry leaves the subscriber list,
\* slot_count drops by one, and no later emit has the entry in its snapshot
\* or invokes it.  The destruction of a disconnected or moved-from
\* connection fires nothing and changes no list.
C14_DestructionDisconnects ==
    /\ [][\A c \in ConnObjs :
            Destroy(c) =>
                LET r == conns[c]
                IN  IF r.connected /\ r.func \in Handles
                    THEN /\ fired[r.func] = 0
                         /\ fired' = [fired EXCEPT ![r.func] = 1]
                         /\ InList(slots[r.func[1]], r.func[2])
                         /\ ~InList(slots'[r.func[1]], r.func[2])
                         /\ \A s \in Signals :
                                slot_count(s)' = IF s = r.func[1]
                                                 THEN slot_count(s) - 1
                                                 ELSE slot_count(s)
                    ELSE /\ fired' = fired
                         /\ slots' = slots]_vars
    /\ [][EmitStep =>
            LET e == emits'[Len(emits')]
            IN  \A i \in DOMAIN e.snap : fired[<<e.sig, e.snap[i].id>>] = 0]_vars
    /\ [](nested = 0 =>
            \A j \in DOMAIN invoked :
                fired[<<invoked[j].w.sig, invoked[j].w.id>>] = 0)

C14_Witness ==
    /\ Done /\ nested = 0
    /\ \E c \in Handles :
        /\ conns[c].dead /\ fired[c] = 1
        /\ emits[1].sig = c[1]
        /\ Len(invoked) = 1 /\ invoked[1].w.id # c[2]
        /\ slot_count(c[1]) = 1

\* C15: move construction fires nothing and changes no list; the new
\* connection holds the source's action and connected state, and the source
\* is disconnected, so that at any time an action that exists has either
\* fired once and has no holder, or has not fired and has exactly one
\* holder, whose first disconnect() or destruction fires it.
C15_MoveConstructionTransfers ==
    /\ [][\A c \in Extra, other \in ConnObjs :
            MoveConstruct(c, other) =>
                /\ fired' = fired
                /\ slots' = slots
                /\ conns'[c].func = conns[other].func
                /\ conns'[c].connected = conns[other].connected
                /\ ~conns'[other].connected]_vars
    /\ [](\A h \in Handles :
            h[2] < next_id[h[1]] => fired[h] + Cardinality(Holders(h)) = 1)
    /\ [][\A c \in ConnObjs, h \in Handles :
            (c \in Holders(h) /\ DisconnectCall(c)) => fired'[h] = 1]_vars

C15_Witness ==
    \E c \in Extra, h \in Handles :
        /\ Holders(h) = {c}
        /\ Live(h) /\ ~conns[h].connected
        /\ fired[h] = 0
        /\ InList(slots[h[1]], h[2])

\* C16: c1 = move(c2) with two distinct connections fires c1's own action
\* if and only if c1 was connected, fires no other action (not c2's), leaves
\* c2 disconnected, and c1 holds c2's action and c2's previous connected
\* state; a later c1.disconnect() fires that action, once.  Self-assignment
\* changes nothing.
C16_MoveAssignment ==
    /\ [][\A c \in ConnObjs : \A other \in ConnObjs \ {c} :
            MoveAssign(c, other) =>
                LET own == conns[c].func
                    was == conns[c].connected
                    got == conns[other].func
                IN  /\ fired' = [h \in Handles |->
                                    IF was /\ h = own THEN fired[h] + 1
                                                      ELSE fired[h]]
                    /\ \A s \in Signals :
                        slots'[s] = IF was /\ own \in Handles /\ own[1] = s
                                    THEN disconnect_by_id(slots[s], own[2])
                                    ELSE slots[s]
                    /\ conns'[c].func = got
                    /\ conns'[c].connected = conns[other].connected
                    /\ ~conns'[other].connected]_vars
    /\ [][\A c \in ConnObjs :
            MoveAssign(c, c) =>
                /\ conns' = conns /\ slots' = slots /\ fired' = fired]_vars
    /\ [][\A c \in ConnObjs : \A h \in Handles \ {c} :
            (c \in Holders(h) /\ Disconnect(c)) =>
                /\ fired[h] = 0 /\ fired'[h] = 1
                /\ ~InList(slots'[h[1]], h[2])]_vars

C16_Witness ==
    \E c \in Handles : \E h \in Handles \ {c} :
        /\ Live(c) /\ conns[c].func = h /\ ~conns[c].connected
        /\ Live(h) /\ ~conns[h].connected
        /\ fired[c] = 1 /\ fired[h] = 1
        /\ slots[c[1]] = <<>> /\ slots[h[1]] = <<>>

\* C17: disconnect() on a connection that has no removal action, and the
\* destruction of such a connection, fire nothing, change no subscriber
\* list, do not fail, and leave the connection disconnected.
C17_DefaultConstructedIsInert ==
    [][\A c \in ConnObjs :
        (DisconnectCall(c) /\ Live(c) /\ conns[c].func = NoFunc) =>
            /\ fired' = fired
            /\ slots' = slots
            /\ fault' = fault
            /\ ~conns'[c].connected]_vars

C17_Witness ==
    /\ fault = "none"
    /\ \E c \in Extra :
        /\ conns[c].made /\ ~conns[c].connected /\ conns[c].func = NoFunc
    /\ \A h \in Handles :
        /\ fired[h] = 0
        /\ conns[h].made => (Live(h) /\ conns[h].connected /\ conns[h].func = h)
    /\ Len(slots["X"]) = 1 /\ Len(slots["Y"]) = 1

\* The entries whose removal right the aggregator a holds.
Adopted(a) ==
    {aggs[a].connections[i].func :
        i \in {j \in DOMAIN aggs[a].connections :
                    aggs[a].connections[j].connected}} \ {NoFunc}

\* C18: the destruction of an aggregator fires the removal action of every
\* connection it adopted, on whatever signal: each of these entries is gone
\* from its subscriber list afterwards, and nothing else is removed; the
\* entries adopted by an aggregator that is alive are registered, in the
\* list every emit of their signal snapshots, and their actions have not
\* fired.
C18_AggregatorDisconnectsAll ==
    /\ [][\A a \in Aggs :
            DestroyAggregator(a) =>
                /\ \A h \in Adopted(a) :
                        /\ InList(slots[h[1]], h[2])
                        /\ ~InList(slots'[h[1]], h[2])
                        /\ fired'[h] = 1
                /\ \A s \in Signals :
                        slots'[s] = SelectSeq(slots[s],
                                        LAMBDA w : <<s, w.id>> \notin Adopted(a))
                /\ \A b \in Aggs \ {a} :
                        /\ aggs'[b] = aggs[b]
                        /\ \A h \in Adopted(b) :
                                /\ InList(slots'[h[1]], h[2])
                                /\ fired'[h] = 0]_vars
    /\ [](\A a \in Aggs : \A h \in Adopted(a) :
            /\ aggs[a].alive
            /\ fired[h] = 0
            /\ \E i \in DOMAIN cleanup_expired(slots[h[1]]) :
                    cleanup_expired(slots[h[1]])[i].id = h[2])

C18_Witness ==
    /\ ~aggs["a1"].alive /\ aggs["a2"].alive
    /\ \E h \in Handles : \E g \in Handles \ {h} :
        /\ h[1] = g[1]
        /\ fired[h] = 1 /\ ~InList(slots[h[1]], h[2])
        /\ Adopted("a2") = {g} /\ InList(slots[g[1]], g[2])

\* C19: disconnect() and the destruction of a connection are safe after the
\* signal that issued the connection has been destroyed: no removal action
\* is ever called on a destroyed signal, so that the program never reads or
\* writes the state of a destroyed signal and never fails.
C19_SafeAfterSignalDestroyed == fault = "none"

\* C21: no two entries of a subscriber list have the same identifier, the
\* counter of a signal never decreases, and connect never assigns an
\* identifier that the signal has assigned before.
C21_IdentifiersUniqueAndFresh ==
    /\ [](\A s \in Signals : \A i \in DOMAIN slots[s] : \A j \in DOMAIN slots[s] :
            i # j => slots[s][i].id # slots[s][j].id)
    /\ [][\A s \in Signals : next_id'[s] >= next_id[s]]_vars
    /\ [][\A s \in Signals :
            Connect(s) => ~conns[<<s, next_id[s]>>].made]_vars

\* C22: a disconnect() call or the destruction of a connection issued by one
\* signal changes the subscriber list of no other signal, also when the
\* other signal holds an entry with the same identifier; of its own signal
\* it removes the entry with its identifier.
C22_NoCrossInstanceRemoval ==
    [][\A c \in ConnObjs : \A h \in Handles :
        (conns[c].func = h /\ DisconnectCall(c)) =>
            /\ \A s \in Signals \ {h[1]} : slots'[s] = slots[s]
            /\ conns[c].connected =>
                    slots'[h[1]] = SelectSeq(slots[h[1]], LAMBDA w : w.id # h[2])]_vars

C22_Witness ==
    /\ fired[<<"X", 0>>] = 1 /\ fired[<<"Y", 0>>] = 0
    /\ slots["X"] = <<>>
    /\ Len(slots["Y"]) = 1 /\ slots["Y"][1].id = 0
    /\ Holders(<<"Y", 0>>) # {}

\* C23: when every slot re-emits 2 only when it receives 1, an emission
\* that starts with emit(1) is finite: only the entries of the outermost
\* snapshot receive 1, the entries that the re-emits enqueue receive 2 and
\* re-emit nothing, so that the slots receive 1 at most once per entry of
\* the outermost snapshot.
C23_ReemitIsFinite ==
    (emits # <<>> /\ emits[1].args = 1) =>
        Cardinality({j \in DOMAIN invoked : invoked[j].got = 1})
            <= Len(emits[1].snap)

\* The thread t is in the drain loop of its emit call.
InDrainLoop(t) == threads[t].pc \in {"loop", "front", "pop", "call", "clear"}

\* how many times the entry w occurs in the sequence of entries ws
Occurrences(w, ws) == Cardinality({i \in DOMAIN ws : ws[i] = w})

\* C24: when two threads call emit on signals of one signature, at most one
\* of them is in the drain loop at a time, the program does not fail, and
\* once both calls have returned the pending queue is empty, the flag is
\* clear and every entry has been invoked once for each snapshot it is in.
C24_ThreadSafe ==
    /\ fault = "none"
    /\ \A t \in Threads : \A u \in Threads \ {t} :
            ~(InDrainLoop(t) /\ InDrainLoop(u))
    /\ (\A t \in Threads : threads[t].pc = "returned") =>
            /\ \A g \in Signatures : slots_queue[g] = <<>> /\ ~emitting[g]
            /\ \A s \in Signals : \A i \in DOMAIN slots[s] :
                    Occurrences(slots[s][i], Ws(invoked)) =
                        Cardinality({t \in Threads :
                                        Occurrences(slots[s][i], threads[t].slots_copy) = 1})

\* C25: the pending queue is drained first in, first out: every invocation
\* takes the front entry of the queue, a nested emit appends behind what is
\* queued, so that no entry of an earlier emit call of the emission is
\* invoked after an entry of a later one, and the entries of each emit call
\* are invoked in the order of its snapshot.
C25_StrictlyFifo ==
    /\ [][InvokeStep =>
            LET g == Top.sg
                r == invoked'[Len(invoked')]
            IN  /\ slots_queue[g] # <<>>
                /\ r.w = Head(slots_queue[g]).w
                /\ r.call = Head(slots_queue[g]).call
                /\ slots_queue'[g] = Tail(slots_queue[g])]_vars
    /\ [][NestedEmitStep =>
            LET e == emits'[Len(emits')]
                g == SigOf(e.sig)
            IN  /\ SubSeq(slots_queue'[g], 1, Len(slots_queue[g])) = slots_queue[g]
                /\ Len(slots_queue'[g]) = Len(slots_queue[g]) + Len(e.snap)]_vars
    /\ [](\A i \in DOMAIN invoked : \A j \in DOMAIN invoked :
            i < j => invoked[i].call <= invoked[j].call)
    /\ [](\A k \in DOMAIN emits :
            Ws(InvOf(k)) = SubSeq(emits[k].snap, 1, Len(InvOf(k))))

C25_Witness ==
    /\ Done /\ Len(emits) = 2 /\ emits[2].from = 1
    /\ slots_queue[SigOf(emits[1].sig)] = <<>>
    /\ [i \in DOMAIN invoked |-> invoked[i].call] = <<1, 1, 2, 2>>
    /\ invoked[2].w # invoked[3].w

\* C26: connect can always be called; a connect call on the signal s leaves
\* the live entries of s as they are and in order, appends one entry with
\* the identifier next_id[s] behind them, so that slot_count() is one more
\* than for the pruned list, changes no other list, invokes no slot, leaves
\* queue, flag and drain loops alone, and returns a connected connection
\* whose action is bound to that identifier on s.
C26_ConnectAppendsOne ==
    /\ [](\A s \in Signals :
            (CanCall /\ sig_alive[s] /\ Connects < MaxConnects) =>
                ENABLED Connect(s))
    /\ [][\A s \in Signals :
            next_id'[s] # next_id[s] =>
                LET id == next_id[s]
                    live == SelectSeq(slots[s], LAMBDA w : ~IsExpiredEntry(w))
                    last == slots'[s][Len(slots'[s])]
                IN  /\ next_id'[s] = id + 1
                    /\ Len(slots'[s]) = Len(live) + 1
                    /\ SubSeq(slots'[s], 1, Len(live)) = live
                    /\ last.id = id /\ last.sig = s
                    /\ slot_count(s)' = slot_count(s) + 1
                    /\ \A s2 \in Signals \ {s} :
                            slots'[s2] = slots[s2] /\ next_id'[s2] = next_id[s2]
                    /\ slots_queue' = slots_queue
                    /\ emitting' = emitting
                    /\ stack' = stack
                    /\ Len(invoked') <= Len(invoked)
                    /\ fired' = fired
                    /\ conns'[<<s, id>>].connected
                    /\ conns'[<<s, id>>].func = <<s, id>>
                    /\ \A c \in ConnObjs \ {<<s, id>>} : conns'[c] = conns[c]]_vars

C26_Witness ==
    \E s \in Signals :
        /\ stack # <<>> /\ slots_queue[SigOf(s)] # <<>>
        /\ ~held["o1"]
        /\ next_id[s] = 2
        /\ Len(slots[s]) = 1 /\ slots[s][1].id = 1
        /\ Holders(<<s, 0>>) # {} /\ Holders(<<s, 1>>) # {}

\* C27: the disconnect of a connected connection that connect returned
\* removes from the list of its signal the entry that this connect call
\* created and no other: the other entries stay, in order, the lists of the
\* other signals, the pending queue, the flag and the drain loops are
\* unchanged; when the entry is no longer in the list, no list changes.
C27_DisconnectRemovesExactlyOne ==
    [][\A h \in Handles :
        (FiresStep(h) /\ conns[h].func = h) =>
            /\ slots'[h[1]] =
                    SelectSeq(slots[h[1]], LAMBDA w : w # SlotWrapper(h[1], h[2], w.owner))
            /\ Len(slots'[h[1]]) >= Len(slots[h[1]]) - 1
            /\ \A s \in Signals \ {h[1]} : slots'[s] = slots[s]
            /\ slots_queue' = slots_queue
            /\ emitting' = emitting
            /\ stack' = stack
            /\ ~InList(slots[h[1]], h[2]) => slots' = slots]_vars

C27_Witness ==
    /\ stack # <<>> /\ nested = 1
    /\ \E h \in Handles :
        /\ fired[h] = 1
        /\ slots[h[1]] # <<>>
        /\ \E i \in DOMAIN slots_queue[SigOf(h[1])] :
                slots_queue[SigOf(h[1])][i].w.id # h[2]
        /\ \A i \in DOMAIN slots[h[1]] : slots[h[1]][i].id > h[2]

\* The entries whose removal right a connection object or an element of an
\* aggregator holds.
HeldHandles ==
    {h \in Handles : Holders(h) # {} \/ \E a \in Aggs : h \in Adopted(a)}

\* The orders in which the handles of the set S can be disconnected.
Orders(S) ==
    {p \in [1 .. Cardinality(S) -> S] :
        \A i \in DOMAIN p : \A j \in DOMAIN p : i # j => p[i] # p[j]}

\* C28: for every set of connections that are held, on one signal or on
\* several, disconnecting them in any order leaves the same subscriber
\* lists as any other order; the destruction of an aggregator leaves the
\* lists that any order of disconnecting its connections leaves.
C28_DisconnectOrderIndependent ==
    /\ [](\A S \in SUBSET HeldHandles :
            \A p \in Orders(S) : \A q \in Orders(S) :
                RemoveAll(slots, p) = RemoveAll(slots, q))
    /\ [][\A a \in Aggs :
            DestroyAggregator(a) =>
                \A p \in Orders(Adopted(a)) : slots' = RemoveAll(slots, p)]_vars

C28_Witness ==
    /\ \E a \in Aggs : ~aggs[a].alive
    /\ \E s \in Signals :
        /\ fired[<<s, 0>>] = 1 /\ fired[<<s, 1>>] = 1
        /\ next_id[s] = 2 /\ slots[s] = <<>>

\* The positions of the live entries of the list of s.
LiveIdx(s) == {i \in DOMAIN slots[s] : ~IsExpiredEntry(slots[s][i])}

\* In this step the entry at position i of s is removed by the disconnect
\* of its connection or by disconnect_all, or its owner expires.
Leaves(s, i) ==
    \/ fired'[<<s, slots[s][i].id>>] # fired[<<s, slots[s][i].id>>]
    \/ DisconnectAll(s)
    \/ \E o \in Owners : slots[s][i].owner = o /\ expired(o)'

\* C29: slot_count() leaves in the list exactly the entries that are not
\* expired and returns their number; it invokes no slot and leaves queue,
\* flag, drain loops, counters, connections and the other lists alone.  The
\* number it returns starts at 0, grows by one with each connect call on
\* the signal, and shrinks by one for each entry that a disconnect or
\* disconnect_all removes or whose owner expires, and changes in no other
\* way: it is the number of connect calls whose entry has not been removed.
C29_SlotCountCountsLiveEntries ==
    /\ [][\A s \in Signals :
            SlotCount(s) =>
                /\ ExactPrune(slots[s], slots'[s])
                /\ \A i \in DOMAIN slots'[s] : ~IsExpiredEntry(slots'[s][i])
                /\ \A s2 \in Signals \ {s} : slots'[s2] = slots[s2]
                /\ slots_queue' = slots_queue
                /\ emitting' = emitting
                /\ stack' = stack
                /\ Len(invoked') <= Len(invoked)
                /\ next_id' = next_id /\ conns' = conns /\ held' = held]_vars
    /\ [](\A s \in Signals : next_id[s] = 0 => slot_count(s) = 0)
    /\ [][\A s \in Signals :
            slot_count(s)' =
                Cardinality(LiveIdx(s))
                + (IF next_id'[s] # next_id[s] THEN 1 ELSE 0)
                - Cardinality({i \in LiveIdx(s) : Leaves(s, i)})]_vars

C29_Witness ==
    /\ stack = <<>> /\ emits = <<>>
    /\ ~held["o1"]
    /\ \A h \in Handles : fired[h] = 0
    /\ \E s \in Signals :
        /\ next_id[s] = 2
        /\ slots[s] = <<SlotWrapper(s, 0, NoOwner)>>
        /\ slot_count(s) = 1

\* A step in which a slot calls emit on a signal whose signature is not the
\* one of the drain loop that is executing the slot, and has no drain loop.
OtherSignatureEmitStep ==
    /\ NestedEmitStep
    /\ SigOf(emits'[Len(emits')].sig) # Top.sg
    /\ ~emitting[SigOf(emits'[Len(emits')].sig)]

\* C30: queue and flag are per signature.  An emit made from inside a slot
\* on a signal of another signature, whose flag is clear, is not deferred:
\* it starts a drain loop of its own on its own queue, and when that loop
\* ends, with the calling slot still executing, its queue is empty, its
\* flag is clear and every entry of its snapshot has been invoked; the loop
\* invokes them with the arguments of the call that started it.  Neither the call nor any step of its loop changes the
\* queue or the flag of another signature.
C30_PerSignatureReentrancy ==
    /\ [][OtherSignatureEmitStep =>
            LET e == emits'[Len(emits')]
                g == SigOf(e.sig)
            IN  /\ Len(stack') = Len(stack) + 1
                /\ SubSeq(stack', 1, Len(stack)) = stack
                /\ stack'[Len(stack')].sg = g
                /\ stack'[Len(stack')].args = e.args
                /\ emitting'[g]
                /\ Ws(slots_queue'[g]) = slots_queue[g] \o e.snap
                /\ \A g2 \in Signatures \ {g} :
                        /\ slots_queue'[g2] = slots_queue[g2]
                        /\ emitting'[g2] = emitting[g2]]_vars
    /\ [][(Len(stack) >= 2 /\ Len(stack') < Len(stack)) =>
            LET g == Top.sg
            IN  /\ slots_queue[g] = <<>>
                /\ ~emitting'[g]
                /\ stack' = SubSeq(stack, 1, Len(stack) - 1)
                /\ stack'[Len(stack')].busy
                /\ \A k \in DOMAIN emits :
                        SigOf(emits[k].sig) = g => Ws(InvOf(k)) = emits[k].snap]_vars
    /\ [][(stack # <<>> /\ InvokeStep) =>
            /\ SigOf(invoked'[Len(invoked')].w.sig) = Top.sg
            /\ invoked'[Len(invoked')].got = Top.args]_vars
    /\ [][(stack # <<>> /\ (DrainStep \/ SlotReturn \/ DrainEnd)) =>
            \A g2 \in Signatures \ {Top.sg} :
                /\ slots_queue'[g2] = slots_queue[g2]
                /\ emitting'[g2] = emitting[g2]]_vars
    /\ [](\A i \in DOMAIN stack : \A j \in DOMAIN stack :
            i < j => stack[i].sg # stack[j].sg /\ stack[i].busy)

C30_Witness ==
    /\ Done /\ Len(emits) = 2
    /\ SigOf(emits[1].sig) # SigOf(emits[2].sig)
    /\ emits[1].args = 1 /\ emits[2].args = 2
    /\ Len(invoked) = 2
    /\ invoked[1].got = 1 /\ invoked[2].got = 2
    /\ \A g \in Signatures : slots_queue[g] = <<>> /\ ~emitting[g]

\* The entries of a list, as a set.
Entries(list) == {list[i] : i \in DOMAIN list}

\* A step in which connect is called on signal s from inside a slot.
ConnectInSlotStep(s) == stack # <<>> /\ next_id'[s] = next_id[s] + 1

Loops(g) == {k \in DOMAIN stack : stack[k].sg = g}

\* C32: quiescence.  For every signature, at most one drain loop is on the
\* call stack, the flag is set exactly when there is one, and when there is
\* none the pending queue is empty; the flag is set only by the emit call
\* that starts the loop and cleared only when that loop ends.
C32_Quiescence ==
    /\ [](\A g \in Signatures :
            /\ Cardinality(Loops(g)) <= 1
            /\ emitting[g] <=> Loops(g) # {}
            /\ Loops(g) = {} => slots_queue[g] = <<>>)
    /\ [][\A g \in Signatures :
            /\ (~emitting[g] /\ emitting'[g]) =>
                    /\ EmitStep
                    /\ stack' = Append(stack, stack'[Len(stack')])
                    /\ stack'[Len(stack')].sg = g
            /\ (emitting[g] /\ ~emitting'[g]) =>
                    /\ Top.sg = g /\ ~Top.busy
                    /\ slots_queue[g] = <<>>
                    /\ stack' = SubSeq(stack, 1, Len(stack) - 1)]_vars

\* A slot of one signature is executing after it emitted a signal of the
\* other signature, whose loop has run and ended.
C32_Witness ==
    /\ Len(stack) = 1 /\ Top.busy
    /\ Len(emits) = 2 /\ SigOf(emits[2].sig) # Top.sg
    /\ emits[2].snap # <<>> /\ Ws(InvOf(2)) = emits[2].snap
    /\ emitting[Top.sg]
    /\ ~emitting[SigOf(emits[2].sig)]
    /\ slots_queue[SigOf(emits[2].sig)] = <<>>

\* C33: in every reachable state the identifiers in each subscriber list
\* are strictly increasing from front to back and below the counter; a step
\* adds an entry only at the back, with the value of the counter as its
\* identifier, and the entries that stay keep their relative order.
C33_RegistrationOrderPreserved ==
    /\ [](\A s \in Signals :
            /\ StrictlyIncreasingIds(slots[s])
            /\ \A w \in Entries(slots[s]) : w.id < next_id[s])
    /\ [][\A s \in Signals :
            /\ \A w \in Entries(slots'[s]) \ Entries(slots[s]) :
                    /\ w = slots'[s][Len(slots'[s])]
                    /\ w.id = next_id[s]
            /\ SelectSeq(slots[s], LAMBDA w : w \in Entries(slots'[s]))
                = SelectSeq(slots'[s], LAMBDA w : w \in Entries(slots[s]))]_vars

\* Two entries in one list, a plain or owner-bound one followed by an
\* owner-bound one.
C33_Witness ==
    \E s \in Signals :
        /\ Len(slots[s]) = 2
        /\ slots[s][1].id = 0 /\ slots[s][2].id = 1
        /\ slots[s][2].owner # NoOwner

\* Connection c is connected and its closure is bound to an identifier
\* whose entry is no longer in the list of its signal.
Stale(c) ==
    /\ Live(c) /\ FiresOn(conns[c])
    /\ ~InList(slots[conns[c].func[1]], conns[c].func[2])

\* C34: an identifier that a signal has assigned and that has left the list
\* (by disconnect_all, by pruning or by a disconnect) never enters the list
\* again, whatever is connected afterwards; and disconnecting or destroying
\* a connection whose entry has left the list changes no subscriber list.
C34_StaleConnectionRemovesNothing ==
    /\ [][\A h \in Handles :
            (conns[h].made /\ ~InList(slots[h[1]], h[2]))
                => ~InList(slots'[h[1]], h[2])]_vars
    /\ [][\A c \in ConnObjs :
            (Stale(c) /\ (Disconnect(c) \/ Destroy(c))) =>
                /\ slots' = slots
                /\ ~conns'[c].connected
                /\ fired'[conns[c].func] = fired[conns[c].func] + 1]_vars

\* The closure of the connection of identifier 0 has run, and the list of
\* its signal holds the entry of identifier 1, whose connection is still
\* connected.
C34_Witness ==
    \E s \in Signals :
        /\ fired[<<s, 0>>] = 1 /\ ~conns[<<s, 0>>].connected
        /\ Len(slots[s]) = 1 /\ slots[s][1].id = 1
        /\ conns[<<s, 1>>].connected /\ fired[<<s, 1>>] = 0

\* The entry is owner-bound and its owner is alive.
BoundAlive(w) == w.owner # NoOwner /\ ~expired(w.owner)

\* C35: the invocation of an owner-bound entry whose owner is alive enters
\* the bound method, holding the owner for the duration of the call, with
\* the arguments that the drain loop gives to every entry; an emission with
\* no emit called from a slot invokes every entry of its snapshot, plain or
\* owner-bound, exactly once, in registration order, with the emitted
\* arguments.  Entries and connections do not keep an owner alive: once the
\* last shared_ptr of the user is dropped, outside the owner's method, every
\* entry bound to the owner is expired, whatever connections exist.
C35_OwnerBoundSlotLikePlain ==
    /\ [][InvokeStep =>
            LET r == invoked'[Len(invoked')]
            IN  BoundAlive(r.w) =>
                    /\ r.ran /\ r.got = Top.args
                    /\ stack'[Len(stack')].busy
                    /\ stack'[Len(stack')].cur = r.w
                    /\ stack'[Len(stack')].locked]_vars
    /\ []((Done /\ Len(emits) = 1) =>
            /\ Ws(invoked) = emits[1].snap
            /\ StrictlyIncreasingIds(emits[1].snap)
            /\ \A j \in DOMAIN invoked : invoked[j].got = emits[1].args)
    /\ [][EmitStep =>
            \A w \in Entries(slots[emits'[Len(emits')].sig]) :
                BoundAlive(w) => w \in Entries(emits'[Len(emits')].snap)]_vars
    /\ [][\A o \in Owners : (DestroyOwner(o) /\ ~Locked(o)) =>
            \A s \in Signals : \A w \in Entries(slots[s]) :
                w.owner = o => IsExpiredEntry(w)']_vars

\* An emission has invoked a plain slot and then the method of an owner
\* that is alive, with the emitted arguments, and the connection of the
\* owner-bound slot is connected.
C35_Witness ==
    /\ Done /\ Len(emits) = 1 /\ Len(invoked) = 2
    /\ invoked[1].w.owner = NoOwner /\ invoked[1].ran
    /\ invoked[2].w.owner # NoOwner /\ invoked[2].ran
    /\ invoked[2].got = emits[1].args
    /\ held[invoked[2].w.owner]
    /\ conns[<<invoked[2].w.sig, invoked[2].w.id>>].connected

C37_CallOperatorIsEmit ==
    /\ [](\A s \in Signals : \A v \in Values :
            ENABLED Call(s, v) <=> ENABLED Emit(s, v))
    /\ [][\A s \in Signals : \A v \in Values :
            Call(s, v) <=> Emit(s, v)]_vars
    /\ [][\A s \in Signals : \A v \in Values :
            Call(s, v) =>
                LET e == emits'[Len(emits')]
                    g == SigOf(s)
                IN  /\ EmitStep
                    /\ e.sig = s /\ e.args = v
                    /\ e.snap = cleanup_expired(slots[s])
                    /\ slots'[s] = e.snap
                    /\ Ws(slots_queue'[g]) = Ws(slots_queue[g]) \o e.snap
                    /\ emitting'[g]
                    /\ IF emitting[g]
                       THEN stack' = stack
                       ELSE /\ Len(stack') = Len(stack) + 1
                            /\ stack'[Len(stack')].args = v]_vars

\* An emission of value 2 on a signal with two slots has ended: both slots
\* were invoked in order with 2 and the queue and flag are clear.
C37_Witness ==
    /\ Done /\ nested = 0 /\ Len(emits) = 1 /\ emits[1].args = 2
    /\ Len(invoked) = 2 /\ Ws(invoked) = slots[emits[1].sig]
    /\ \A j \in DOMAIN invoked : invoked[j].got = 2 /\ invoked[j].ran
    /\ \A g \in Signatures : slots_queue[g] = <<>> /\ ~emitting[g]

TypeOK ==
    /\ \A s \in Signals : Len(slots[s]) <= MaxConnects
    /\ nested \in 0 .. MaxNested
    /\ Len(emits) <= 1 + MaxNested
====
